---------------------------- MODULE Spec2Model ----------------------------
(***************************************************************************)
(* Model of .github/scripts/generate_pacman.py: the Pac-Man contribution   *)
(* calendar generator.  One run of main() fetches contribution records     *)
(* (GitHub GraphQL API, or generate_mock_data as the fallback), buckets    *)
(* them into a 7 x W calendar grid, plans a serpentine path and emits an   *)
(* SVG document that is written to OUTPUT_PATH.                            *)
(*                                                                         *)
(* A date string 'YYYY-MM-DD' is modelled as the tuple <<y, m, d>>; the    *)
(* lexicographic order of the strings is the order of DateKey.  A Python   *)
(* datetime is modelled by its proleptic Gregorian ordinal                 *)
(* (date.toordinal()).  None is the record NoneVal.                        *)
(***************************************************************************)
EXTENDS Integers, Sequences, FiniteSets, TLC

(***************************************************************************)
(* Program constants (generate_pacman.py, lines 24-51).                    *)
(***************************************************************************)
CELL_SIZE == 10
CELL_GAP == 3
CELL_RADIUS == 2
WEEKS_TO_SHOW == 53
DAYS_IN_WEEK == 7
MARGIN_TOP == 55
MARGIN_LEFT == 35
MARGIN_RIGHT == 20
MARGIN_BOTTOM == 25
BG_COLOR == "#0d1117"
EMPTY_CELL_COLOR == "#161b22"
PACMAN_COLOR == "#ffff00"

\* LEVEL_COLORS, lines 39-45
LEVEL_COLORS ==
    [l \in 0..4 |->
        CASE l = 0 -> "#161b22"
          [] l = 1 -> "#0e4429"
          [] l = 2 -> "#006d32"
          [] l = 3 -> "#26a641"
          [] l = 4 -> "#39d353"]

\* ANIMATION_DURATION_PER_CELL = 0.25 s, in hundredths of a second
ANIMATION_DURATION_PER_CELL == 25

\* Python's None
NoneVal == [is_none |-> TRUE]

(***************************************************************************)
(* Bounds of the model.                                                    *)
(***************************************************************************)
\* the small inputs are the subsets of a window of this many days
MaxWindowDays == 9
\* the long inputs run from 53 weeks minus two days up to this many days more
MaxLongExtra == 3
\* the account's contributionYears are drawn from this many calendar years
MaxYears == 2
\* the mock generator's random draws come from this many + 1 patterns
MaxSeed == 1

(***************************************************************************)
(* Calendar arithmetic of Python's datetime (date.toordinal, fromordinal,  *)
(* weekday), which strptime / strftime / timedelta rest on.                *)
(***************************************************************************)
IsLeap(y) == (y % 4 = 0) /\ ((y % 100 # 0) \/ (y % 400 = 0))

\* days of the year y before the first of month m
DaysBeforeMonth(y, m) ==
    LET base == <<0, 31, 59, 90, 120, 151, 181, 212, 243, 273, 304, 334>>
    IN  base[m] + (IF m > 2 /\ IsLeap(y) THEN 1 ELSE 0)

DaysBeforeYear(y) ==
    LET p == y - 1 IN p * 365 + (p \div 4) - (p \div 100) + (p \div 400)

\* datetime(y, m, d).toordinal()
Ymd2Ord(y, m, d) == DaysBeforeYear(y) + DaysBeforeMonth(y, m) + d

\* date.fromordinal(n) as <<y, m, d>>
Ord2Ymd(n) ==
    LET n0 == n - 1
        n400 == n0 \div 146097
        r400 == n0 % 146097
        n100 == r400 \div 36524
        r100 == r400 % 36524
        n4 == r100 \div 1461
        r4 == r100 % 1461
        n1 == r4 \div 365
        r1 == r4 % 365
        year == n400 * 400 + 1 + n100 * 100 + n4 * 4 + n1
    IN  IF n1 = 4 \/ n100 = 4
        THEN <<year - 1, 12, 31>>
        ELSE LET m0 == (r1 + 50) \div 32
                 p0 == DaysBeforeMonth(year, m0)
                 month == IF p0 > r1 THEN m0 - 1 ELSE m0
                 preceding == DaysBeforeMonth(year, month)
             IN  <<year, month, r1 - preceding + 1>>

\* datetime.weekday(): Monday = 0 ... Sunday = 6
Weekday(ord) == (ord + 6) % 7

\* current.strftime('%Y-%m-%d'), line 222
Strftime(ord) == Ord2Ymd(ord)

\* datetime.strptime(s, '%Y-%m-%d'), lines 248 and 286
Strptime(date) == Ymd2Ord(date[1], date[2], date[3])

\* the order of the 'YYYY-MM-DD' strings: year, then month, then day
DateKey(date) == date[1] * 10000 + date[2] * 100 + date[3]

\* a lookup shifted by one quartile
contribution_level_to_int_shifted(level_str) ==
    CASE level_str = "NONE" -> 1
      [] level_str = "FIRST_QUARTILE" -> 2
      [] level_str = "SECOND_QUARTILE" -> 3
      [] level_str = "THIRD_QUARTILE" -> 4
      [] level_str = "FOURTH_QUARTILE" -> 5
      [] OTHER -> 0

(***************************************************************************)
(* contribution_level_to_int, lines 178-187.                               *)
(***************************************************************************)
contribution_level_to_int(level_str) ==
    CASE level_str = "NONE" -> 0
      [] level_str = "FIRST_QUARTILE" -> 1
      [] level_str = "SECOND_QUARTILE" -> 2
      [] level_str = "THIRD_QUARTILE" -> 3
      [] level_str = "FOURTH_QUARTILE" -> 4
      [] OTHER -> 0

(***************************************************************************)
(* sorted(contributions, key=lambda x: x['date']), line 241: a stable      *)
(* sort.  The element at index i goes to the position that counts the      *)
(* elements with a smaller key and the earlier elements with the same key. *)
(***************************************************************************)
IsSortedByDate(s) ==
    \A i \in 1..(Len(s) - 1) : DateKey(s[i].date) <= DateKey(s[i + 1].date)

SortRank(s, i) ==
    Cardinality({j \in 1..Len(s) :
        \/ DateKey(s[j].date) < DateKey(s[i].date)
        \/ (DateKey(s[j].date) = DateKey(s[i].date) /\ j < i)}) + 1

SortedByDate(s) ==
    IF IsSortedByDate(s)
    THEN s
    ELSE [p \in 1..Len(s) |-> s[CHOOSE i \in 1..Len(s) : SortRank(s, i) = p]]

(***************************************************************************)
(* build_calendar_grid, lines 232-275.                                     *)
(***************************************************************************)
EmptyWeek == [d \in 0..(DAYS_IN_WEEK - 1) |-> NoneVal]

\* lines 248-253: the record as the loop body leaves it (three keys added)
Annotate(contrib) ==
    LET date == Strptime(contrib.date)
        day_of_week == (Weekday(date) + 1) % 7
    IN  [date |-> contrib.date, count |-> contrib.count, level |-> contrib.level,
         day_of_week |-> day_of_week, x |-> 0, y |-> 0]

\* a week that ends on Sunday
ClosesWeek_sunday(day_of_week) == day_of_week = 0

\* when the loop closes the current week, line 257
ClosesWeek(day_of_week) == day_of_week = 6

\* one iteration of the loop of lines 247-259
WeekStep(acc, contrib) ==
    LET c == Annotate(contrib)
        week == [acc.current_week EXCEPT ![c.day_of_week] = c]
    IN  IF ClosesWeek(c.day_of_week)
        THEN [weeks_data |-> Append(acc.weeks_data, week), current_week |-> EmptyWeek]
        ELSE [weeks_data |-> acc.weeks_data, current_week |-> week]

\* the loop of lines 247-259 over sorted_contribs[lo..hi], in order: the
\* iterations lo..mid, then the iterations mid+1..hi on what they left (the
\* test on Len makes the first half be evaluated before the second starts)
RECURSIVE WeekLoop(_, _, _, _)
WeekLoop(acc, s, lo, hi) ==
    IF lo > hi THEN acc
    ELSE IF lo = hi THEN WeekStep(acc, s[lo])
    ELSE LET mid == (lo + hi) \div 2
             left == WeekLoop(acc, s, lo, mid)
         IN  IF Len(left.weeks_data) >= 0
             THEN WeekLoop(left, s, mid + 1, hi)
             ELSE left

\* lines 261-262: a last partial week is kept if any slot is occupied
FlushWeek(acc) ==
    IF \E d \in 0..(DAYS_IN_WEEK - 1) : acc.current_week[d] # NoneVal
    THEN Append(acc.weeks_data, acc.current_week)
    ELSE acc.weeks_data

\* weeks_data[:WEEKS_TO_SHOW]: the oldest columns kept
LastWeeks_first(weeks) ==
    IF Len(weeks) <= WEEKS_TO_SHOW THEN weeks ELSE SubSeq(weeks, 1, WEEKS_TO_SHOW)

\* weeks_data[-WEEKS_TO_SHOW:], line 265
LastWeeks(weeks) ==
    IF Len(weeks) <= WEEKS_TO_SHOW THEN weeks
    ELSE SubSeq(weeks, Len(weeks) - WEEKS_TO_SHOW + 1, Len(weeks))

\* lines 244-265: weeks_data
BuildWeeks(contributions) ==
    LET sorted_contribs == SortedByDate(contributions)
        acc == WeekLoop([weeks_data |-> <<>>, current_week |-> EmptyWeek],
                        sorted_contribs, 1, Len(sorted_contribs))
    IN  LastWeeks(FlushWeek(acc))

\* lines 268-273: grid[row][col], rows 0..6, columns 0..W-1 (weeks_data, a
\* sequence, is indexed from 1)
GridOf(weeks) ==
    [row \in 0..(DAYS_IN_WEEK - 1) |->
        [col \in 0..(Len(weeks) - 1) |-> weeks[col + 1][row]]]

\* the whole function: <<grid, weeks_data>>; for no contributions it returns the
\* bare all-None 7 x 53 grid (line 238)
build_calendar_grid(contributions) ==
    IF contributions = <<>>
    THEN [grid |-> [row \in 0..(DAYS_IN_WEEK - 1) |->
                        [col \in 0..(WEEKS_TO_SHOW - 1) |-> NoneVal]],
          weeks_data |-> <<>>]
    ELSE LET weeks == BuildWeeks(contributions)
         IN  [grid |-> GridOf(weeks), weeks_data |-> weeks]

\* the input list after the call: every record carries the added keys
MutatedInput(contributions) ==
    [i \in 1..Len(contributions) |-> Annotate(contributions[i])]

(***************************************************************************)
(* generate_mock_data, lines 190-229.  The random draws of one day are     *)
(* modelled by a pattern: draw 0 is "no activity" (random.random() not     *)
(* below the threshold), draws 1..5 pick the count 1, 3, 6, 10 or 15.      *)
(***************************************************************************)
MockCounts == <<1, 3, 6, 10, 15>>

\* lines 207-219
MockRecord(ord, draw) ==
    LET count == IF draw = 0 THEN 0 ELSE MockCounts[draw]
        level == IF draw = 0 THEN 0
                 ELSE IF count <= 2 THEN 1
                 ELSE IF count <= 5 THEN 2
                 ELSE IF count <= 9 THEN 3
                 ELSE 4
    IN  [date |-> Strftime(ord), count |-> count, level |-> level]

\* the draw of day ord under the pattern seed
MockDraw(ord, seed) == (ord + seed * (ord \div 7)) % 6

\* sorted(set(...)) of a set of years
RECURSIVE SortedYears(_)
SortedYears(S) ==
    IF S = {} THEN <<>>
    ELSE LET m == CHOOSE a \in S : \A b \in S : a <= b
         IN  <<m>> \o SortedYears(S \ {m})

\* lines 196-200: the Saturday that ends the current week
MockEndDate(today) ==
    LET days_since_sunday == (Weekday(today) + 1) % 7
    IN  today - days_since_sunday + 6

\* a start 53 weeks before the end
MockStartDate_53(today) == MockEndDate(today) - 53 * 7

\* lines 196-200
MockStartDate(today) == MockEndDate(today) - 52 * 7

generate_mock_data(today, seed) ==
    LET end_date == MockEndDate(today)
        start_date == MockStartDate(today)
        contributions ==
            [i \in 1..(end_date - start_date + 1) |->
                MockRecord(start_date + i - 1, MockDraw(start_date + i - 1, seed))]
        years == {contributions[i].date[1] : i \in 1..Len(contributions)}
    IN  [contributions |-> contributions, years |-> SortedYears(years)]

(***************************************************************************)
(* The GitHub GraphQL API as fetch_contributions_graphql sees it.          *)
(***************************************************************************)
\* what one requests.post and the payload it returns can be
UserOutcomes ==
    {"transport_error", "non200", "bad_json", "errors", "no_user", "partial", "ok"}

YearOutcomes ==
    {"transport_error", "non200", "bad_json", "errors", "errors_data_null",
     "no_user", "partial", "ok"}

\* the outcomes on which the code raises: requests.post raises; response.json()
\* raises on a body that is no JSON; a payload lacking a key that is indexed
\* (lines 100, 145-155) or with "data": null (line 144)
Raises(outcome) ==
    outcome \in {"transport_error", "bad_json", "errors_data_null", "partial"}

\* the failures of a request the code answers without raising
SoftFailure(outcome) == outcome \in {"non200", "errors", "no_user"}

LevelNames ==
    <<"NONE", "FIRST_QUARTILE", "SECOND_QUARTILE", "THIRD_QUARTILE",
      "FOURTH_QUARTILE", "UNKNOWN">>

\* a day of the calendar the API returns: date, contributionCount, contributionLevel
ApiDay(ord) ==
    [date |-> Ord2Ymd(ord), contributionCount |-> (ord % 6) * 2,
     contributionLevel |-> LevelNames[(ord % 6) + 1]]

\* the days of the calendar of one year, from-to as in lines 126-127
ApiYearDays(year) ==
    LET first == Ymd2Ord(year, 1, 1)
        last == Ymd2Ord(year, 12, 31)
    IN  [i \in 1..(last - first + 1) |-> ApiDay(first + i - 1)]

\* lines 149-156: the records of one year's calendar
YearContributions(days) ==
    [i \in 1..Len(days) |->
        [date |-> days[i].date, count |-> days[i].contributionCount,
         level |-> contribution_level_to_int(days[i].contributionLevel)]]

\* lines 158-160
GraphqlResult(all_contribs, yrs) ==
    IF all_contribs # <<>>
    THEN [contributions |-> all_contribs, years |-> yrs]
    ELSE NoneVal

\* line 166: `result and result['contributions']`
UsesApiResult(res) == res # NoneVal /\ res.contributions # <<>>

(***************************************************************************)
(* generate_svg, lines 296-554.                                            *)
(***************************************************************************)
\* lines 313-327: the cells, row by row; cell k (from 1) is row (k-1) div W,
\* column (k-1) mod W
Cells(grid, num_weeks) ==
    [k \in 1..(DAYS_IN_WEEK * num_weeks) |->
        LET row == (k - 1) \div num_weeks
            col == (k - 1) % num_weeks
            x == MARGIN_LEFT + col * (CELL_SIZE + CELL_GAP)
            y == MARGIN_TOP + row * (CELL_SIZE + CELL_GAP)
        IN  [x |-> x, y |-> y,
             cx |-> x + (CELL_SIZE \div 2), cy |-> y + (CELL_SIZE \div 2),
             row |-> row, col |-> col,
             data |-> IF col < num_weeks THEN grid[row][col] ELSE NoneVal]]

Reverse(s) == [i \in 1..Len(s) |-> s[Len(s) + 1 - i]]

IsAscendingByCol(s) == \A i \in 1..(Len(s) - 1) : s[i].col < s[i + 1].col

ColRank(s, i, reverse) ==
    Cardinality({j \in 1..Len(s) :
        \/ (IF reverse THEN s[j].col > s[i].col ELSE s[j].col < s[i].col)
        \/ (s[j].col = s[i].col /\ j < i)}) + 1

\* row_cells.sort(key=lambda c: c['col'], reverse=...), lines 337 and 340
SortByCol(s, reverse) ==
    IF IsAscendingByCol(s)
    THEN (IF reverse THEN Reverse(s) ELSE s)
    ELSE [p \in 1..Len(s) |-> s[CHOOSE i \in 1..Len(s) : ColRank(s, i, reverse) = p]]

\* every row left to right
RowReversed_never(row) == FALSE

\* lines 335-340: the direction of a row
RowReversed(row) == row % 2 # 0

\* a path of the populated cells only
RowPath_populated(cells, row) ==
    LET row_cells == SelectSeq(cells, LAMBDA c : c.row = row /\ c.data # NoneVal)
        ordered == IF row % 2 # 0 THEN Reverse(row_cells) ELSE row_cells
    IN  [i \in 1..Len(ordered) |->
            [px |-> ordered[i].cx, py |-> ordered[i].cy, cell |-> ordered[i]]]

\* lines 334-343, one row: the path points (cx, cy, cell) of the row
RowPath(cells, row) ==
    LET row_cells == SelectSeq(cells, LAMBDA c : c.row = row)
        ordered == SortByCol(row_cells, RowReversed(row))
    IN  [i \in 1..Len(ordered) |->
            [px |-> ordered[i].cx, py |-> ordered[i].cy, cell |-> ordered[i]]]

\* lines 331-343: the rows 0..6 in order
RECURSIVE PathFrom(_, _)
PathFrom(cells, row) ==
    IF row >= DAYS_IN_WEEK THEN <<>>
    ELSE RowPath(cells, row) \o PathFrom(cells, row + 1)

PathPoints(cells) == PathFrom(cells, 0)

\* sum(c['count'] for c in contributions if c['count'] > 0), line 346, over
\* contributions[lo..hi]
RECURSIVE SumCounts(_, _, _)
SumCounts(s, lo, hi) ==
    IF lo > hi THEN 0
    ELSE IF lo = hi THEN (IF s[lo].count > 0 THEN s[lo].count ELSE 0)
    ELSE LET mid == (lo + hi) \div 2
         IN  SumCounts(s, lo, mid) + SumCounts(s, mid + 1, hi)

\* line 434
CellLevel(cell) == IF cell.data # NoneVal THEN cell.data.level ELSE 0

\* LEVEL_COLORS.get(level, LEVEL_COLORS[0]), line 435
LevelColor(level) ==
    IF level \in DOMAIN LEVEL_COLORS THEN LEVEL_COLORS[level] ELSE LEVEL_COLORS[0]

\* line 442 and the "{delay:.2f}s" of lines 455-457, in hundredths of a second:
\* a multiple of 0.25 is printed exactly by two decimals
DotDelay(idx) == idx * ANIMATION_DURATION_PER_CELL

\* a dot for every cell
HasDot_always(level) == level >= 0

\* line 450: whether the cell gets a dot
HasDot(level) == level > 0

\* lines 432-459: the rect of path point idx (from 0) and its dot, if any; the
\* radius 2 + level * 0.5 is kept in halves
CellElement(idx, point) ==
    LET cell == point.cell
        level == CellLevel(cell)
    IN  [rect |-> [x |-> cell.x, y |-> cell.y, width |-> CELL_SIZE,
                   height |-> CELL_SIZE, rx |-> CELL_RADIUS,
                   fill |-> LevelColor(level)],
         dot |-> IF HasDot(level)
                 THEN [cx |-> point.px, cy |-> point.py, r2 |-> 4 + level,
                       fill |-> PACMAN_COLOR, begin |-> DotDelay(idx)]
                 ELSE NoneVal]

\* lines 350-353: total_duration, in hundredths of a second
TotalDuration(total_cells) ==
    LET forward_duration == total_cells * ANIMATION_DURATION_PER_CELL
    IN  forward_duration * 2

\* lines 467-471: the direction of each path point, 1 on an even row and -1 on
\* an odd row
Directions(path_points) ==
    [i \in 1..Len(path_points) |->
        IF path_points[i].cell.row % 2 = 0 THEN 1 ELSE -1]

\* the directions of the forward pass, in reverse order and not negated
ReturnDirections_same(directions) == Reverse(directions)

\* line 474: [-d for d in reversed(directions)]
ReturnDirections(directions) ==
    LET reversed == Reverse(directions)
    IN  [i \in 1..Len(reversed) |-> 0 - reversed[i]]

\* lines 477-479: all_positions
AllPositions(path_points) ==
    LET forward_positions ==
            [i \in 1..Len(path_points) |-> <<path_points[i].px, path_points[i].py>>]
        return_positions == Reverse(forward_positions)
    IN  forward_positions \o return_positions

\* line 483: f"{i/(total_points-1):.6f}", in millionths: the quotient rounded
\* to the nearest millionth
KeyTime(i, total_points) ==
    (2 * 1000000 * i + (total_points - 1)) \div (2 * (total_points - 1))

\* lines 491-497
RightOpacity(d) == IF d = 1 THEN "1" ELSE "0"
LeftOpacity(d) == IF d = 1 THEN "0" ELSE "1"

\* lines 464-530: the animation of the two Pac-Man markers (values and keyTimes
\* are the same in the four animation elements; dur is total_duration)
PacmanAnimation(path_points) ==
    LET directions == Directions(path_points)
        all_directions == directions \o ReturnDirections(directions)
        all_positions == AllPositions(path_points)
        total_points == Len(all_positions)
    IN  [values |-> all_positions,
         key_times |-> [i \in 1..total_points |-> KeyTime(i - 1, total_points)],
         right_opacity |-> [i \in 1..total_points |-> RightOpacity(all_directions[i])],
         left_opacity |-> [i \in 1..total_points |-> LeftOpacity(all_directions[i])],
         dur |-> TotalDuration(Len(path_points))]

\* generate_empty_svg, lines 557-566
generate_empty_svg ==
    [kind |-> "empty", width |-> 800, height |-> 150,
     text |-> "No contributions yet - Start coding!"]

\* no early return
ReturnsEmptySvg_never(contributions) == FALSE

\* line 301: `if not contributions`
ReturnsEmptySvg(contributions) == contributions = <<>>

\* the locals of generate_svg when it returns, and the document
generate_svg(contributions_data, today) ==
    LET contributions == contributions_data.contributions
        years == contributions_data.years
    IN  IF ReturnsEmptySvg(contributions)
        THEN [grid |-> NoneVal, weeks_data |-> NoneVal, path_points |-> NoneVal,
              svg |-> generate_empty_svg]
        ELSE LET built == build_calendar_grid(contributions)
                 num_weeks == Len(built.weeks_data)
                 cells == Cells(built.grid, num_weeks)
                 path_points == PathPoints(cells)
                 this_year == Ord2Ymd(today)[1]
             IN  [grid |-> built.grid, weeks_data |-> built.weeks_data,
                  path_points |-> path_points,
                  svg |->
                    [kind |-> "full",
                     width |-> MARGIN_LEFT + num_weeks * (CELL_SIZE + CELL_GAP)
                                 + MARGIN_RIGHT,
                     height |-> MARGIN_TOP + DAYS_IN_WEEK * (CELL_SIZE + CELL_GAP)
                                 + MARGIN_BOTTOM,
                     total_contributions |->
                        SumCounts(contributions, 1, Len(contributions)),
                     year_from |-> IF years # <<>> THEN years[1] ELSE this_year,
                     year_to |-> IF years # <<>> THEN years[Len(years)]
                                 ELSE this_year,
                     cells |-> [i \in 1..Len(path_points) |->
                                    CellElement(i - 1, path_points[i])],
                     pacman |-> PacmanAnimation(path_points)]]

(***************************************************************************)
(* The inputs of the functions called on their own.                        *)
(***************************************************************************)
\* a record of day ord as either producer builds it
InputRecord(ord) ==
    [date |-> Ord2Ymd(ord), count |-> (ord % 5) * 3, level |-> ord % 5]

\* contributions_data of the records of the days ords (a sequence of ordinals)
InputData(ords) ==
    [contributions |-> [i \in 1..Len(ords) |-> InputRecord(ords[i])],
     years |-> SortedYears({Ord2Ymd(ords[i])[1] : i \in 1..Len(ords)})]

\* the window of the small inputs starts on Wednesday 2023-12-27
WindowStart == Ymd2Ord(2023, 12, 27)

\* the days of a set, ascending
RECURSIVE AscendingDays(_)
AscendingDays(S) ==
    IF S = {} THEN <<>>
    ELSE LET m == CHOOSE a \in S : \A b \in S : a <= b
         IN  <<m>> \o AscendingDays(S \ {m})

SmallInputs ==
    {InputData(AscendingDays(S)) :
        S \in SUBSET (WindowStart..(WindowStart + MaxWindowDays - 1))}
    \cup {InputData(Reverse(AscendingDays(S))) :
        S \in SUBSET (WindowStart..(WindowStart + MaxWindowDays - 1))}

\* the long inputs: runs of consecutive days around 53 weeks, starting on each
\* weekday, whole (mask 0), without the Saturdays of every other week (mask 1)
\* or without the Sundays (mask 2)
LongStart == Ymd2Ord(2023, 1, 1)
LongMinDays == WEEKS_TO_SHOW * DAYS_IN_WEEK - 2

Masked(ord, mask) ==
    \/ (mask = 1 /\ ord % 7 = 6 /\ (ord \div 7) % 2 = 1)
    \/ (mask = 2 /\ ord % 7 = 0)

LongInputs ==
    {InputData(SelectSeq([i \in 1..n |-> start + i - 1],
                         LAMBDA o : ~Masked(o, mask))) :
        <<start, n, mask>> \in
            (LongStart..(LongStart + 6))
            \X (LongMinDays..(LongMinDays + MaxLongExtra))
            \X (0..2)}

\* the two-week scenario: 14 consecutive days, all of level 0 but the tenth, of
\* level 4, starting on each weekday
ScenarioStart == Ymd2Ord(2024, 3, 3)

ScenarioData(start) ==
    [contributions |->
        [i \in 1..14 |->
            [date |-> Ord2Ymd(start + i - 1),
             count |-> IF i = 10 THEN 12 ELSE 0,
             level |-> IF i = 10 THEN 4 ELSE 0]],
     years |-> <<2024>>]

ScenarioInputs == {ScenarioData(start) : start \in ScenarioStart..(ScenarioStart + 6)}

Inputs == SmallInputs \cup LongInputs \cup ScenarioInputs

\* the days on which main() may run: a week of todays
FirstToday == Ymd2Ord(2024, 11, 3)
Todays == FirstToday..(FirstToday + 6)

\* the years an account's contributionYears may list
ApiYears == (Ord2Ymd(FirstToday)[1] - MaxYears + 1)..Ord2Ymd(FirstToday)[1]

(***************************************************************************)
(* generate_typing.py: the terminal typing animation.  Times are in        *)
(* hundredths of a second (every time of the program is a multiple of      *)
(* 0.05 s), x positions in tenths of a pixel.                              *)
(***************************************************************************)
CHAR_DURATION == 5
LINE_PAUSE == 75
CLEAR_DURATION == 50
FONT_SIZE == 18
LINE_HEIGHT == 28

\* lines 29-40: the lines to type, each a sequence of characters
LINES ==
  <<
    <<">", " ", "I", "n", "i", "t", "i", "a", "l", "i", "z", "i", "n",
      "g", " ", "P", "r", "o", "f", "i", "l", "e", ":", " ", "M", "o",
      "h", "a", "m", "e", "d", " ", "E", "l", "r", "e", "f", "a", "a",
      "y", "_">>,
    <<">", " ", "R", "o", "l", "e", ":", " ", "A", "I", " ", "D", "e",
      "v", "e", "l", "o", "p", "e", "r", " ", "@", " ", "H", "a", "i",
      "l", " ", "E", "m", "i", "r", "a", "t", "e", " ", "(", "I", "n",
      "n", "o", "v", "a", "t", "i", "o", "n", " ", "&", " ", "A", "I",
      " ", "D", "e", "p", "t", ")">>,
    <<>>,
    <<">", " ", "L", "o", "a", "d", "i", "n", "g", " ", "P", "r", "o",
      "d", "u", "c", "t", "i", "o", "n", " ", "M", "o", "d", "u", "l",
      "e", "s", ".", ".", ".">>,
    <<" ", " ", "[", "+", "]", " ", "A", "d", "v", "a", "n", "c", "e",
      "d", " ", "R", "A", "G", " ", "&", " ", "V", "e", "c", "t", "o",
      "r", " ", "S", "e", "a", "r", "c", "h", " ", "A", "r", "c", "h",
      "i", "t", "e", "c", "t", "u", "r", "e", "s">>,
    <<" ", " ", "[", "+", "]", " ", "O", "r", "c", "h", "e", "s", "t",
      "r", "a", "t", "i", "n", "g", " ", "M", "u", "l", "t", "i", "-",
      "A", "g", "e", "n", "t", " ", "W", "o", "r", "k", "f", "l", "o",
      "w", "s">>,
    <<" ", " ", "[", "+", "]", " ", "G", "e", "n", "A", "I", " ", "S",
      "y", "s", "t", "e", "m", " ", "D", "e", "s", "i", "g", "n", " ",
      "&", " ", "O", "p", "t", "i", "m", "i", "z", "a", "t", "i", "o",
      "n">>,
    <<" ", " ", "[", "+", "]", " ", "D", "e", "e", "p", " ", "L", "e",
      "a", "r", "n", "i", "n", "g", " ", "R", "e", "s", "e", "a", "r",
      "c", "h", " ", "&", " ", "D", "e", "v", "e", "l", "o", "p", "m",
      "e", "n", "t">>,
    <<>>,
    <<">", " ", "S", "t", "a", "t", "u", "s", ":", " ", "t", "u", "r",
      "n", "i", "n", "g", "_", "i", "n", "n", "o", "v", "a", "t", "i",
      "o", "n", "_", "i", "n", "t", "o", "_", "r", "e", "a", "l", "i",
      "t", "y", ".", ".", ".">>
  >>

\* lines 77-87: the character escaped for SVG
EscapeChar(char) ==
    IF char = "<" THEN "&lt;"
    ELSE IF char = ">" THEN "&gt;"
    ELSE IF char = "&" THEN "&amp;"
    ELSE IF char = "\"" THEN "&quot;"
    ELSE char

\* lines 74-75: x_pos and char_time of the character char_idx (from 0)
CharX(char_idx) == 300 + char_idx * 105
CharTime(current_time, char_idx) == current_time + char_idx * CHAR_DURATION

\* lines 89-94: the animation record of a character
CharAnim(line, char_idx, y_pos, current_time) ==
    [char |-> EscapeChar(line[char_idx + 1]), x |-> CharX(char_idx), y |-> y_pos,
     begin |-> CharTime(current_time, char_idx)]

\* lines 102-106: the cursor keyframe of a character
CharKeyframe(char_idx, y_pos, current_time) ==
    [x |-> CharX(char_idx) + 105, y |-> y_pos,
     time |-> CharTime(current_time, char_idx)]

\* lines 63-117: one iteration of the loop over LINES, on the locals acc
TypeLine(acc, line_idx, line) ==
    LET y_pos == 40 + line_idx * LINE_HEIGHT
        is_last_line == line_idx = Len(LINES) - 1
    IN  IF line = <<>>
        THEN [acc EXCEPT !.current_time = @ + LINE_PAUSE,
                         !.cursor_time = @ + LINE_PAUSE]
        ELSE LET anims == [c \in 1..Len(line) |->
                             CharAnim(line, c - 1, y_pos, acc.current_time)]
                 typed == acc.cursor_keyframes \o
                          [c \in 1..Len(line) |->
                             CharKeyframe(c - 1, y_pos, acc.current_time)]
                 current_time == acc.current_time + Len(line) * CHAR_DURATION
                                   + LINE_PAUSE
                 last_kf == typed[Len(typed)]
             IN  [current_time |-> current_time,
                  cursor_time |-> current_time,
                  main_text_animations |->
                     IF is_last_line THEN acc.main_text_animations
                     ELSE acc.main_text_animations \o anims,
                  status_text_animations |->
                     IF is_last_line THEN acc.status_text_animations \o anims
                     ELSE acc.status_text_animations,
                  cursor_keyframes |->
                     Append(typed, [x |-> last_kf.x, y |-> last_kf.y,
                                    time |-> current_time])]

\* the loop of lines 63-117 from line line_idx (from 0) on
RECURSIVE TypeLines(_, _)
TypeLines(acc, line_idx) ==
    IF line_idx >= Len(LINES) THEN acc
    ELSE TypeLines(TypeLine(acc, line_idx, LINES[line_idx + 1]), line_idx + 1)

\* lines 207-214: the cursor stays at its last keyframe until total_duration
ExtendCursor(cursor_keyframes, total_duration) ==
    IF cursor_keyframes # <<>>
    THEN LET last_kf == cursor_keyframes[Len(cursor_keyframes)]
         IN  Append(cursor_keyframes,
                    [x |-> last_kf.x, y |-> last_kf.y, time |-> total_duration])
    ELSE cursor_keyframes

\* line 217: f"{kf['time'] / total_duration:.4f}", in ten-thousandths: the
\* quotient rounded to the nearest ten-thousandth
CursorKeyTime(time, total_duration) ==
    (2 * 10000 * time + total_duration) \div (2 * total_duration)

\* the maximum of a non-empty sequence of numbers
SeqMax(s) == CHOOSE m \in {s[i] : i \in DOMAIN s} : \A i \in DOMAIN s : s[i] <= m

\* lines 172-183 and 189-200: the text element of a character; a blank is
\* written as a no-break space and begin is printed with two decimals
TextElement(anim) ==
    [char |-> IF anim.char = " " THEN "&#160;" ELSE anim.char,
     x |-> anim.x, y |-> anim.y, begin |-> anim.begin]

\* generate_svg of generate_typing.py, lines 44-251: the document
typing_generate_svg ==
    LET max_chars == SeqMax([i \in DOMAIN LINES |-> Len(LINES[i])])
        wide == max_chars * 11 + 60
        locals == TypeLines([current_time |-> 50, cursor_time |-> 50,
                             main_text_animations |-> <<>>,
                             status_text_animations |-> <<>>,
                             cursor_keyframes |-> <<>>], 0)
        typing_end_time == locals.current_time
        fade_out_start == typing_end_time
        fade_out_end == fade_out_start + CLEAR_DURATION
        final_msg_start == fade_out_end + 50
        total_duration == final_msg_start + 100
        cursor_keyframes == ExtendCursor(locals.cursor_keyframes, total_duration)
    IN  [kind |-> "typing",
         width |-> IF wide > 900 THEN wide ELSE 900,
         height |-> Len(LINES) * LINE_HEIGHT + 60,
         fade_out_start |-> fade_out_start,
         final_msg_start |-> final_msg_start,
         main_text |-> [i \in DOMAIN locals.main_text_animations |->
                          TextElement(locals.main_text_animations[i])],
         status_text |-> [i \in DOMAIN locals.status_text_animations |->
                            TextElement(locals.status_text_animations[i])],
         cursor |->
            [x_values |-> [i \in DOMAIN cursor_keyframes |-> cursor_keyframes[i].x],
             y_values |-> [i \in DOMAIN cursor_keyframes |-> cursor_keyframes[i].y],
             key_times |-> [i \in DOMAIN cursor_keyframes |->
                              CursorKeyTime(cursor_keyframes[i].time, total_duration)],
             dur |-> total_duration,
             height |-> FONT_SIZE + 2]]

(***************************************************************************)
(* The state.                                                              *)
(***************************************************************************)
VARIABLES
    entry,              \* what this run calls: main, generate_svg or
                        \* build_calendar_grid of generate_pacman.py, or
                        \* main of generate_typing.py (typing)
    pc,                 \* where the run stands
    GITHUB_TOKEN,       \* whether the environment holds a token (line 19)
    now,                \* datetime.now() of the run, as an ordinal
    requests,           \* how many requests.post calls the run has made
    failed,             \* whether a request or the fetch failed without raising
    years,              \* fetch_contributions_graphql: sorted(years), line 106
    year_idx,           \* ... the index of the loop of line 106
    all_contributions,  \* ... line 104
    result,             \* what fetch_contributions_graphql returned
    source,             \* which branch of fetch_contributions returned the data
    contributions_data, \* the data generate_svg is called on
    grid,               \* build_calendar_grid's grid
    weeks_data,         \* build_calendar_grid's weeks_data
    path_points,        \* generate_svg's path_points
    svg,                \* the document generate_svg returned
    output_file,        \* the content of OUTPUT_PATH
    writes              \* how many times main wrote OUTPUT_PATH (line 592)

vars == <<entry, pc, GITHUB_TOKEN, now, requests, failed, years, year_idx,
          all_contributions, result, source, contributions_data, grid,
          weeks_data, path_points, svg, output_file, writes>>

fetchVars == <<years, year_idx, all_contributions>>
svgVars == <<grid, weeks_data, path_points, svg>>

InitLocals ==
    /\ requests = 0
    /\ failed = FALSE
    /\ years = <<>>
    /\ year_idx = 1
    /\ all_contributions = <<>>
    /\ result = NoneVal
    /\ grid = NoneVal
    /\ weeks_data = NoneVal
    /\ path_points = NoneVal
    /\ svg = NoneVal
    /\ output_file = NoneVal
    /\ writes = 0

\* a run of main()
InitMain ==
    /\ entry = "main"
    /\ pc = "fetch_contributions_graphql"
    /\ GITHUB_TOKEN \in BOOLEAN
    /\ now \in Todays
    /\ source = "none"
    /\ contributions_data = NoneVal
    /\ InitLocals

\* a call of generate_svg or of build_calendar_grid on given records
InitCall ==
    /\ entry \in {"generate_svg", "build_calendar_grid"}
    /\ pc = entry
    /\ GITHUB_TOKEN = FALSE
    /\ now = FirstToday
    /\ source = "input"
    /\ contributions_data \in Inputs \cup {[contributions |-> <<>>, years |-> <<>>]}
    /\ InitLocals

\* a run of main() of generate_typing.py
InitTyping ==
    /\ entry = "typing"
    /\ pc = "typing_generate_svg"
    /\ GITHUB_TOKEN = FALSE
    /\ now = FirstToday
    /\ source = "none"
    /\ contributions_data = NoneVal
    /\ InitLocals

Init == InitMain \/ InitCall \/ InitTyping

(***************************************************************************)
(* fetch_contributions_graphql, lines 54-160.                              *)
(***************************************************************************)
\* lines 56-60
CheckToken ==
    /\ pc = "fetch_contributions_graphql"
    /\ IF GITHUB_TOKEN
       THEN /\ pc' = "user_query"
            /\ UNCHANGED <<result, failed>>
       ELSE /\ pc' = "fetch_contributions"
            /\ result' = NoneVal
            /\ failed' = TRUE
    /\ UNCHANGED <<entry, GITHUB_TOKEN, now, requests, fetchVars, source,
                   contributions_data, svgVars, output_file, writes>>

\* lines 79-101: the user query and its answer
UserQuery ==
    /\ pc = "user_query"
    /\ requests' = requests + 1
    /\ \E outcome \in UserOutcomes :
        IF Raises(outcome)
        THEN /\ pc' = "raised"
             /\ UNCHANGED <<years, result, failed>>
        ELSE IF SoftFailure(outcome)
        THEN /\ pc' = "fetch_contributions"
             /\ result' = NoneVal
             /\ failed' = TRUE
             /\ UNCHANGED years
        ELSE /\ pc' = "year_loop"
             /\ \E Y \in SUBSET ApiYears : years' = SortedYears(Y)
             /\ UNCHANGED <<result, failed>>
    /\ UNCHANGED <<entry, GITHUB_TOKEN, now, year_idx, all_contributions, source,
                   contributions_data, svgVars, output_file, writes>>

\* lines 106-156: one iteration of the loop over sorted(years)
\* what a year's query leaves in all_contributions, lines 142-156
AfterYear(all_contribs, outcome, year) ==
    IF outcome = "ok"
    THEN all_contribs \o YearContributions(ApiYearDays(year))
    ELSE all_contribs

\* line 106: whether the loop over sorted(years) has a year left to query
YearsLeft_first(idx, sorted_years) == idx <= Len(sorted_years) /\ idx <= 1

YearsLeft(idx, sorted_years) == idx <= Len(sorted_years)

YearQuery ==
    /\ pc = "year_loop"
    /\ YearsLeft(year_idx, years)
    /\ requests' = requests + 1
    /\ \E outcome \in YearOutcomes :
        IF Raises(outcome)
        THEN /\ pc' = "raised"
             /\ UNCHANGED <<year_idx, all_contributions, failed>>
        ELSE /\ pc' = "year_loop"
             /\ year_idx' = year_idx + 1
             /\ all_contributions' = AfterYear(all_contributions, outcome, years[year_idx])
             /\ failed' = (failed \/ SoftFailure(outcome))
    /\ UNCHANGED <<entry, GITHUB_TOKEN, now, years, result, source,
                   contributions_data, svgVars, output_file, writes>>

\* lines 158-160: the return after the loop
GraphqlReturn ==
    /\ pc = "year_loop"
    /\ ~YearsLeft(year_idx, years)
    /\ result' = GraphqlResult(all_contributions, years)
    /\ failed' = (failed \/ all_contributions = <<>>)
    /\ years' = <<>>
    /\ year_idx' = 1
    /\ all_contributions' = <<>>
    /\ pc' = "fetch_contributions"
    /\ UNCHANGED <<entry, GITHUB_TOKEN, now, requests, source,
                   contributions_data, svgVars, output_file, writes>>

(***************************************************************************)
(* fetch_contributions, lines 163-175, and main up to line 584.            *)
(***************************************************************************)
FetchContributions ==
    /\ pc = "fetch_contributions"
    /\ IF UsesApiResult(result)
       THEN /\ contributions_data' = result
            /\ source' = "api"
       ELSE /\ \E seed \in 0..MaxSeed :
                contributions_data' = generate_mock_data(now, seed)
            /\ source' = "mock"
    /\ result' = NoneVal
    /\ pc' = "generate_svg"
    /\ UNCHANGED <<entry, GITHUB_TOKEN, now, requests, failed, fetchVars,
                   svgVars, output_file, writes>>

(***************************************************************************)
(* generate_svg, called by main (line 588) or on its own.                  *)
(***************************************************************************)
GenerateSvg ==
    /\ pc = "generate_svg"
    /\ LET r == generate_svg(contributions_data, now)
       IN  /\ grid' = r.grid
           /\ weeks_data' = r.weeks_data
           /\ path_points' = r.path_points
           /\ svg' = r.svg
           /\ contributions_data' =
                IF ReturnsEmptySvg(contributions_data.contributions)
                THEN contributions_data
                ELSE [contributions_data EXCEPT
                        !.contributions = MutatedInput(contributions_data.contributions)]
    /\ pc' = IF entry = "main" THEN "write" ELSE "returned"
    /\ UNCHANGED <<entry, GITHUB_TOKEN, now, requests, failed, fetchVars, result,
                   source, output_file, writes>>

\* build_calendar_grid called on its own
BuildCalendarGrid ==
    /\ pc = "build_calendar_grid"
    /\ LET r == build_calendar_grid(contributions_data.contributions)
       IN  /\ grid' = r.grid
           /\ weeks_data' = r.weeks_data
    /\ contributions_data' =
        [contributions_data EXCEPT
            !.contributions = MutatedInput(contributions_data.contributions)]
    /\ pc' = "returned"
    /\ UNCHANGED <<entry, GITHUB_TOKEN, now, requests, failed, fetchVars, result,
                   source, path_points, svg, output_file, writes>>

(***************************************************************************)
(* main, lines 590-598: the file is written.                               *)
(***************************************************************************)
WriteFile ==
    /\ pc = "write"
    /\ output_file' = svg
    /\ writes' = writes + 1
    /\ pc' = "done"
    /\ UNCHANGED <<entry, GITHUB_TOKEN, now, requests, failed, fetchVars, result,
                   source, contributions_data, svgVars>>

(***************************************************************************)
(* main of generate_typing.py, lines 254-269.                              *)
(***************************************************************************)
\* line 259
TypingGenerateSvg ==
    /\ pc = "typing_generate_svg"
    /\ svg' = typing_generate_svg
    /\ pc' = "typing_write"
    /\ UNCHANGED <<entry, GITHUB_TOKEN, now, requests, failed, fetchVars, result,
                   source, contributions_data, grid, weeks_data, path_points,
                   output_file, writes>>

\* lines 262-266
TypingWriteFile ==
    /\ pc = "typing_write"
    /\ output_file' = svg
    /\ writes' = writes + 1
    /\ pc' = "typing_done"
    /\ UNCHANGED <<entry, GITHUB_TOKEN, now, requests, failed, fetchVars, result,
                   source, contributions_data, svgVars>>

Next ==
    \/ CheckToken
    \/ UserQuery
    \/ YearQuery
    \/ GraphqlReturn
    \/ FetchContributions
    \/ GenerateSvg
    \/ BuildCalendarGrid
    \/ WriteFile
    \/ TypingGenerateSvg
    \/ TypingWriteFile

Spec == Init /\ [][Next]_vars

(***************************************************************************)
(* Vocabulary of the properties.                                           *)
(***************************************************************************)
Rows == 0..(DAYS_IN_WEEK - 1)
Columns(g) == DOMAIN g[0]
NumCols(g) == Cardinality(Columns(g))
Populated(g) == {p \in Rows \X Columns(g) : g[p[1]][p[2]] # NoneVal}
PopulatedCols(g) == {c \in Columns(g) : \E r \in Rows : g[r][c] # NoneVal}

\* the records the run works on, and the day each is dated
Records == contributions_data.contributions
OrdOf(rec) == Strptime(rec.date)
InputOrds == {OrdOf(Records[i]) : i \in 1..Len(Records)}

\* the Sunday-to-Saturday calendar week of a day, and its Sunday = 0 weekday
CalendarWeek(ord) == ord \div 7
SundayZero(ord) == ord % 7

\* the called function has returned
Returned == pc \in {"returned", "write", "done"}
\* generate_svg has returned (the placeholder or the full layout)
SvgReturned == Returned /\ entry # "build_calendar_grid"
FullSvg == SvgReturned /\ svg.kind = "full"
\* the path was planned: generate_svg went past its early return
PathBuilt == FullSvg
\* the grid was built, by generate_svg or by a call of build_calendar_grid
Built == Returned /\ (entry = "build_calendar_grid" \/ svg.kind = "full")
MainEnded == entry = "main" /\ pc \in {"done", "raised"}
Fetched == entry = "main" /\ pc \in {"generate_svg", "write", "done"}

\* the days of the records of column c (from 1) of weeks_data
ColumnOrds(c) == {OrdOf(weeks_data[c][r]) : r \in {q \in Rows : weeks_data[c][q] # NoneVal}}

\* the week columns build_calendar_grid accumulates before it cuts to the last
\* 53: one per Saturday of the input, and one more for the days after the last
SaturdaysOf(ords) == {o \in ords : SundayZero(o) = 6}
HasTail(ords) ==
    LET sats == SaturdaysOf(ords)
    IN  \E o \in ords \ sats : \A s \in sats : o > s
Accumulated(ords) ==
    Cardinality(SaturdaysOf(ords)) + (IF HasTail(ords) THEN 1 ELSE 0)
ClosedColumns == {c \in 1..Len(weeks_data) : weeks_data[c][6] # NoneVal}

(***************************************************************************)
(* C1: whatever the API calls of fetch_contributions do (missing token,    *)
(* transport error, non-200 status, GraphQL errors, malformed or partial   *)
(* payload), a run of main() never raises and ends having written the SVG  *)
(* file.  The code wraps no request in try/except: the statement is        *)
(* violated.                                                               *)
(***************************************************************************)
C1_MainAlwaysWritesSvg == MainEnded => (pc = "done" /\ output_file # NoneVal)

(***************************************************************************)
(* C2: whenever a request of the run failed (token missing, non-200,       *)
(* GraphQL errors, empty result), fetch_contributions returns the mock     *)
(* data, for the user query and for every per-year query.  A failed        *)
(* per-year query is skipped and the other years' real data returned: the  *)
(* statement is violated.                                                  *)
(***************************************************************************)
C2_FailureMeansMock == (Fetched /\ failed) => source = "mock"

(***************************************************************************)
(* C3: the grid of build_calendar_grid has at most 53 columns; when more   *)
(* than 53 week columns are accumulated, the retained ones are the 53 most *)
(* recent, in chronological order.                                         *)
(***************************************************************************)
C3_Last53Columns ==
    Built =>
        /\ NumCols(grid) <= 53
        /\ Records # <<>> =>
            LET ords == InputOrds
                sats == SaturdaysOf(ords)
                closed == ClosedColumns
                W == Len(weeks_data)
            IN  /\ W = (IF Accumulated(ords) > 53 THEN 53 ELSE Accumulated(ords))
                /\ NumCols(grid) = W
                \* chronological order of the columns
                /\ \A c \in 1..(W - 1) :
                    \A a \in ColumnOrds(c) : \A b \in ColumnOrds(c + 1) : a < b
                \* the closed columns are those of the latest Saturdays
                /\ {OrdOf(weeks_data[c][6]) : c \in closed} =
                    {s \in sats :
                        Cardinality({t \in sats : t > s}) < Cardinality(closed)}
                \* the days after the last Saturday are the last column
                /\ HasTail(ords) =>
                    /\ weeks_data[W][6] = NoneVal
                    /\ \E o \in ColumnOrds(W) : \A q \in ords : q <= o

\* more than 53 columns were accumulated and the grid keeps 53
C3_Witness ==
    /\ Built /\ Records # <<>>
    /\ Accumulated(InputOrds) > 53
    /\ NumCols(grid) = 53

(***************************************************************************)
(* C4: every non-empty slot (row, col) holds a record whose Sunday = 0     *)
(* weekday is row, all records of one column lie in one Sunday-to-Saturday *)
(* week, and a later column holds a later week, also for inputs with       *)
(* missing days.  A week without a Saturday record is not closed, and the  *)
(* next week's records land in the same column: the statement is violated. *)
(***************************************************************************)
C4_SlotsMatchCalendar ==
    (Built /\ Records # <<>>) =>
        /\ \A c \in 1..Len(weeks_data) : \A r \in Rows :
            weeks_data[c][r] # NoneVal =>
                /\ SundayZero(OrdOf(weeks_data[c][r])) = r
                /\ grid[r][c - 1] = weeks_data[c][r]
        /\ \A c \in 1..Len(weeks_data) :
            \A a \in ColumnOrds(c) : \A b \in ColumnOrds(c) :
                CalendarWeek(a) = CalendarWeek(b)
        /\ \A c \in 1..(Len(weeks_data) - 1) :
            \A a \in ColumnOrds(c) : \A b \in ColumnOrds(c + 1) :
                CalendarWeek(a) < CalendarWeek(b)

PathPositions ==
    {<<path_points[i].cell.row, path_points[i].cell.col>> : i \in 1..Len(path_points)}

\* no position is visited twice
PathInjective == Cardinality(PathPositions) = Len(path_points)

(***************************************************************************)
(* C5, as stated: the path visits every populated grid position exactly    *)
(* once and its length is the number of populated cells, also when the     *)
(* first or last week is partly filled.  Violated: the path takes the      *)
(* empty slots of a partial week too.                                      *)
(***************************************************************************)
C5_PathIsPopulatedCells ==
    PathBuilt =>
        /\ Len(path_points) = Cardinality(Populated(grid))
        /\ PathInjective
        /\ PathPositions = Populated(grid)

(***************************************************************************)
(* C5, amended: the path visits every position of the 7 x W grid exactly   *)
(* once, populated or not, carrying the slot's record; its length is 7 * W *)
(* and equals the number of populated cells only when no slot is empty.    *)
(***************************************************************************)
C5_PathIsAllCells ==
    PathBuilt =>
        /\ Len(path_points) = 7 * NumCols(grid)
        /\ PathInjective
        /\ PathPositions = Rows \X Columns(grid)
        /\ \A i \in 1..Len(path_points) :
            LET cell == path_points[i].cell
            IN  cell.data = grid[cell.row][cell.col]
        /\ (Len(path_points) = Cardinality(Populated(grid)))
            <=> (Populated(grid) = Rows \X Columns(grid))

\* a path over a grid whose first or last week is partly filled
C5_Witness ==
    /\ PathBuilt
    /\ NumCols(grid) >= 2
    /\ \E r \in Rows : grid[r][0] = NoneVal
    /\ Len(path_points) > Cardinality(Populated(grid))

Abs(n) == IF n < 0 THEN -n ELSE n

(***************************************************************************)
(* C6: the path is a continuous serpentine: rows in the order 0..6, even   *)
(* rows by ascending column, odd rows by descending column, consecutive    *)
(* points of one row one column apart, and every two consecutive points    *)
(* (the step to the next row included) adjacent grid cells.                *)
(***************************************************************************)
C6_Serpentine ==
    PathBuilt =>
        /\ Len(path_points) > 0 =>
            /\ path_points[1].cell.row = 0
            /\ path_points[Len(path_points)].cell.row = DAYS_IN_WEEK - 1
        /\ \A i \in 1..(Len(path_points) - 1) :
            LET a == path_points[i].cell
                b == path_points[i + 1].cell
            IN  /\ b.row \in {a.row, a.row + 1}
                /\ Abs(b.row - a.row) + Abs(b.col - a.col) = 1
                /\ b.row = a.row =>
                    b.col = (IF a.row % 2 = 0 THEN a.col + 1 ELSE a.col - 1)

\* a path over several columns, so that rows have steps and turns
C6_Witness == PathBuilt /\ NumCols(grid) >= 3 /\ Len(path_points) >= 21

(***************************************************************************)
(* C7: generate_svg emits one rectangle per path cell, and a dot for a     *)
(* cell exactly when the cell holds a record of level > 0; the dot begins  *)
(* at the cell's index in the path times the per-cell duration (0.25 s).   *)
(***************************************************************************)
C7_RectsAndDots ==
    FullSvg =>
        /\ Len(svg.cells) = Len(path_points)
        /\ \A i \in 1..Len(svg.cells) :
            LET cell == path_points[i].cell
                e == svg.cells[i]
            IN  /\ e.rect.x = cell.x /\ e.rect.y = cell.y
                /\ (e.dot # NoneVal) <=>
                    (grid[cell.row][cell.col] # NoneVal
                     /\ grid[cell.row][cell.col].level > 0)
                /\ e.dot # NoneVal =>
                    /\ e.dot.begin = (i - 1) * 25
                    /\ e.dot.cx = cell.cx /\ e.dot.cy = cell.cy

\* a document with a dot after the first cell, a level-0 cell and an empty slot
C7_Witness ==
    /\ FullSvg
    /\ \E i \in 2..Len(svg.cells) : svg.cells[i].dot # NoneVal
    /\ \E i \in 1..Len(svg.cells) :
        path_points[i].cell.data # NoneVal /\ path_points[i].cell.data.level = 0
    /\ \E i \in 1..Len(svg.cells) : path_points[i].cell.data = NoneVal

\* the grid of the input: the one generate_svg built, or, where it returned
\* before building one, the one build_calendar_grid gives
GridOfInput ==
    IF Built THEN grid ELSE build_calendar_grid(Records).grid

(***************************************************************************)
(* C8: generate_svg returns the placeholder of generate_empty_svg exactly  *)
(* when the grid built from its input has no populated cell (so for an     *)
(* empty collection), and the full layout otherwise.                       *)
(***************************************************************************)
C8_PlaceholderIffNoCells ==
    SvgReturned =>
        /\ svg.kind \in {"empty", "full"}
        /\ svg.kind = "empty" <=> Populated(GridOfInput) = {}
        /\ svg.kind = "empty" <=> svg = generate_empty_svg
        /\ svg.kind = "empty" <=> Records = <<>>

\* generate_svg has returned the placeholder
C8_Witness == SvgReturned /\ svg = generate_empty_svg /\ Records = <<>>

IsScenario ==
    /\ contributions_data # NoneVal
    /\ Len(Records) = 14
    /\ \A i \in 1..14 :
        /\ OrdOf(Records[i]) = OrdOf(Records[1]) + i - 1
        /\ Records[i].level = (IF i = 10 THEN 4 ELSE 0)

Dots == {i \in 1..Len(svg.cells) : svg.cells[i].dot # NoneVal}

(***************************************************************************)
(* C9, as stated: 14 records on 14 consecutive days, all of level 0 but a  *)
(* level-4 record on day 10, give 2 populated columns, a path of 14 points *)
(* and one dot, whatever the weekday of the first day.  Violated when the  *)
(* first day is no Sunday: the days then span three calendar weeks.        *)
(***************************************************************************)
C9_TwoWeeksAnyWeekday ==
    (IsScenario /\ FullSvg) =>
        /\ Cardinality(PopulatedCols(grid)) = 2
        /\ Len(path_points) = 14
        /\ Cardinality(Dots) = 1

(***************************************************************************)
(* C9, amended: the scenario gives exactly one dot whatever the weekday of *)
(* the first day; 2 populated columns and a path of 14 points when the     *)
(* first day is a Sunday, and otherwise 3 populated columns and a path of  *)
(* 21 points.                                                              *)
(***************************************************************************)
C9_TwoWeeksFromSunday ==
    (IsScenario /\ FullSvg) =>
        /\ Cardinality(Dots) = 1
        /\ IF SundayZero(OrdOf(Records[1])) = 0
           THEN Cardinality(PopulatedCols(grid)) = 2 /\ Len(path_points) = 14
           ELSE Cardinality(PopulatedCols(grid)) = 3 /\ Len(path_points) = 21

\* the scenario starting on a Sunday went through generate_svg
C9_Witness ==
    /\ IsScenario /\ FullSvg
    /\ SundayZero(OrdOf(Records[1])) = 0
    /\ Len(path_points) = 14

Palette(level) ==
    CASE level = 0 -> "#161b22"
      [] level = 1 -> "#0e4429"
      [] level = 2 -> "#006d32"
      [] level = 3 -> "#26a641"
      [] level = 4 -> "#39d353"

(***************************************************************************)
(* C10: every record, from the API or from generate_mock_data, has a level *)
(* in 0..4, and its cell is filled with the palette entry of that level:   *)
(* #161b22 for level 0 (and for empty slots), #39d353 for level 4.         *)
(***************************************************************************)
C10_LevelsAndColors ==
    /\ Fetched => \A i \in 1..Len(Records) : Records[i].level \in 0..4
    /\ (entry = "main" /\ FullSvg) =>
        \A i \in 1..Len(svg.cells) :
            LET data == path_points[i].cell.data
            IN  svg.cells[i].rect.fill =
                    (IF data = NoneVal THEN "#161b22" ELSE Palette(data.level))

\* a run on API data that drew a level-4 cell, a level-0 cell and an empty slot
C10_Witness ==
    /\ entry = "main" /\ source = "api" /\ pc = "done"
    /\ \E i \in 1..Len(svg.cells) :
        /\ path_points[i].cell.data # NoneVal
        /\ path_points[i].cell.data.level = 4
        /\ output_file.cells[i].rect.fill = "#39d353"
    /\ \E i \in 1..Len(svg.cells) :
        /\ path_points[i].cell.data # NoneVal
        /\ path_points[i].cell.data.level = 0
    /\ \E i \in 1..Len(svg.cells) : path_points[i].cell.data = NoneVal


(***************************************************************************)
(* Vocabulary of the later claims.                                         *)
(***************************************************************************)
\* the days of the records the grid g holds
GridOrds(g) == {OrdOf(g[p[1]][p[2]]) : p \in Populated(g)}

\* the Sunday-to-Saturday calendar weeks a set of days touches, first to last
WeeksSpanned(ords) ==
    IF ords = {} THEN 0
    ELSE LET first == CHOOSE a \in ords : \A b \in ords : a <= b
             last == CHOOSE a \in ords : \A b \in ords : a >= b
         IN  CalendarWeek(last) - CalendarWeek(first) + 1

\* the keys of a ContributionRecord as the API client and the mock generator
\* produce it
RecordKeys == {"date", "count", "level"}

C12_RecordsUnchanged ==
    Built => \A i \in 1..Len(Records) : DOMAIN Records[i] = RecordKeys

(***************************************************************************)
(* C14: for an input of pairwise distinct dates that spans at most 53      *)
(* Sunday-to-Saturday calendar weeks, the grid build_calendar_grid returns *)
(* holds every input record in exactly one slot: as many occupied slots as *)
(* records, and the days in the slots are the days of the input.  A week   *)
(* without a Saturday record is not closed, and the next week's records    *)
(* overwrite its slots: the statement is violated.                         *)
(***************************************************************************)
C14_NoRecordLost ==
    Built =>
        LET ords == InputOrds
        IN  (/\ Records # <<>>
             /\ Cardinality(ords) = Len(Records)
             /\ WeeksSpanned(ords) <= WEEKS_TO_SHOW)
            => /\ Cardinality(Populated(grid)) = Len(Records)
               /\ GridOrds(grid) = ords

(***************************************************************************)
(* C16: whatever the current date, the records of generate_mock_data are   *)
(* on consecutive days, the last of them the Saturday of the current       *)
(* Sunday-to-Saturday week, and the grid built from them has exactly 53    *)
(* columns and holds every one of the records.                             *)
(***************************************************************************)
C16_MockFills53Columns ==
    (entry = "main" /\ source = "mock") =>
        LET n == Len(Records)
            ords == InputOrds
        IN  /\ n > 0
            /\ \A i \in 1..(n - 1) : OrdOf(Records[i + 1]) = OrdOf(Records[i]) + 1
            /\ SundayZero(OrdOf(Records[n])) = 6
            /\ CalendarWeek(OrdOf(Records[n])) = CalendarWeek(now)
            /\ (Returned =>
                    /\ FullSvg
                    /\ NumCols(grid) = WEEKS_TO_SHOW
                    /\ Cardinality(Populated(grid)) = n
                    /\ GridOrds(grid) = ords)

\* a run on a Wednesday whose mock data filled the 53 columns
C16_Witness ==
    /\ entry = "main"
    /\ source = "mock"
    /\ FullSvg
    /\ SundayZero(now) = 3
    /\ NumCols(grid) = WEEKS_TO_SHOW
    /\ Cardinality(Populated(grid)) = Len(Records)

(***************************************************************************)
(* The Pac-Man animation of the returned document.  Times are compared in  *)
(* millionths of the per-cell duration: keyTimes are printed in millionths *)
(* of the loop, and the loop and the dot delays are whole numbers of       *)
(* per-cell durations.                                                     *)
(***************************************************************************)
\* the time at which the marker is at keyframe k (from 1)
ArrivalTime(k) ==
    svg.pacman.key_times[k] * (svg.pacman.dur \div ANIMATION_DURATION_PER_CELL)

\* the time at which the dot of path point k (from 1) starts to disappear
DotBegin(k) ==
    (svg.cells[k].dot.begin \div ANIMATION_DURATION_PER_CELL) * 1000000

\* what the six printed decimals of a keyTime can move an arrival time by
KeyTimeRounding == svg.pacman.dur \div (2 * ANIMATION_DURATION_PER_CELL)

\* the row of the grid a keyframe's position lies in
KeyframeRow(k) ==
    LET n == Len(path_points)
    IN  IF k <= n THEN path_points[k].cell.row
        ELSE path_points[2 * n + 1 - k].cell.row

(***************************************************************************)
(* C13: with N path points the animation has 2N position keyframes at the  *)
(* keyTimes i/(2N-1) and a loop of 2 * N per-cell durations, and on the    *)
(* forward pass the marker is at the cell of sequence index idx at the     *)
(* time idx * per-cell duration at which that cell's dot starts to         *)
(* disappear (up to the rounding of the printed keyTimes).  The 2N         *)
(* keyframes divide the loop into 2N - 1 steps, each longer than the       *)
(* per-cell duration, so the marker reaches every cell but the first after *)
(* the dot's delay: the statement is violated.                             *)
(***************************************************************************)
C13_ArrivalIsDotDelay ==
    FullSvg =>
        LET n == Len(path_points)
        IN  /\ Len(svg.pacman.values) = 2 * n
            /\ Len(svg.pacman.key_times) = 2 * n
            /\ svg.pacman.dur = 2 * n * ANIMATION_DURATION_PER_CELL
            /\ \A k \in Dots :
                Abs(ArrivalTime(k) - DotBegin(k)) <= KeyTimeRounding

(***************************************************************************)
(* C15: at every keyframe of the forward and of the return pass one of the *)
(* two markers has opacity 1 and the other opacity 0; the visible one is   *)
(* the right-facing marker on even rows and the left-facing one on odd     *)
(* rows during the forward pass, the opposite during the return pass, and  *)
(* wherever the next keyframe lies in the same row it faces the way the    *)
(* marker moves.                                                           *)
(***************************************************************************)
C15_VisibleMarkerFacesTravel ==
    FullSvg =>
        LET n == Len(path_points)
            a == svg.pacman
        IN  /\ Len(a.right_opacity) = 2 * n
            /\ Len(a.left_opacity) = 2 * n
            /\ \A k \in 1..(2 * n) :
                /\ {a.right_opacity[k], a.left_opacity[k]} = {"0", "1"}
                /\ a.values[k] =
                     LET point == path_points[IF k <= n THEN k ELSE 2 * n + 1 - k]
                     IN  <<point.px, point.py>>
                /\ (a.right_opacity[k] = "1") <=>
                     (IF k <= n THEN KeyframeRow(k) % 2 = 0
                      ELSE KeyframeRow(k) % 2 = 1)
            /\ \A k \in 1..(2 * n - 1) :
                (a.values[k][2] = a.values[k + 1][2]
                    /\ a.values[k][1] # a.values[k + 1][1])
                => ((a.right_opacity[k] = "1")
                        <=> (a.values[k + 1][1] > a.values[k][1]))

\* a document of several columns: the marker travels right and left on both
\* passes
C15_Witness ==
    /\ FullSvg
    /\ NumCols(grid) >= 2
    /\ LET n == Len(path_points)
       IN  /\ svg.pacman.right_opacity[1] = "1"
           /\ svg.pacman.left_opacity[NumCols(grid) + 1] = "1"
           /\ svg.pacman.left_opacity[2 * n] = "1"
           /\ svg.pacman.right_opacity[n + 1] = "0"

(***************************************************************************)
(* The document of the typing generator.                                   *)
(***************************************************************************)
\* generate_svg of generate_typing.py has returned
TypingReturned == entry = "typing" /\ pc \in {"typing_write", "typing_done"}

\* the typed characters in the order of the document: the main text, then the
\* status line
TypedChars == svg.main_text \o svg.status_text

\* character a comes before character b in reading order
ReadsBefore(a, b) == a.y < b.y \/ (a.y = b.y /\ a.x < b.x)

(***************************************************************************)
(* C17: in the document of the typing generator the typed characters are   *)
(* revealed in reading order: from the first character of the first line   *)
(* to the last character of the last line the begin times strictly         *)
(* increase, and all of them precede the start of the fade-out; the        *)
(* cursor's keyTimes list is as long as its x and its y value lists, is    *)
(* non-decreasing, starts at 0 and ends at 1.  The first cursor keyframe   *)
(* is the first character's, at 0.5 s, so the list starts above 0: the     *)
(* statement is violated.                                                  *)
(***************************************************************************)
C17_TypingOrderAndCursorTimes ==
    TypingReturned =>
        LET chars == TypedChars
            key_times == svg.cursor.key_times
        IN  /\ Len(chars) > 0
            /\ \A i \in 1..(Len(chars) - 1) :
                /\ ReadsBefore(chars[i], chars[i + 1])
                /\ chars[i].begin < chars[i + 1].begin
            /\ \A i \in 1..Len(chars) : chars[i].begin < svg.fade_out_start
            /\ Len(key_times) = Len(svg.cursor.x_values)
            /\ Len(key_times) = Len(svg.cursor.y_values)
            /\ Len(key_times) > 0
            /\ \A i \in 1..(Len(key_times) - 1) : key_times[i] <= key_times[i + 1]
            /\ key_times[1] = 0
            /\ key_times[Len(key_times)] = 10000

=============================================================================
